---- MODULE Spec2Model ----
(***************************************************************************)
(* A model of the resizable array of src/src/vector.h.                     *)
(*                                                                         *)
(* The heap is a finite set of blocks handed out by operator new and taken *)
(* back by operator delete.  A block has a number of element slots; a slot *)
(* is either raw memory (Raw) or holds a constructed value.  A vector      *)
(* object is the triple size_, capacity_, data_ of the source, data_ being *)
(* a block identifier or NULL.  Every operation of the class is a function *)
(* from machine states to machine states, written after its code; the     *)
(* actions apply these functions to the variables.                         *)
(***************************************************************************)
EXTENDS Integers, Sequences, FiniteSets, TLC

\* ---- bounds of the model ------------------------------------------------
MaxSlots == 5      \* element slots of the memory, program with one vector
TwoSlots == 2      \* element slots of the memory, program with two vectors
PushSlots == 10    \* element slots the memory of SpecPush holds
AssignSlots == 5  \* element slots the memory of SpecAssign holds
MaxBlocks == 3     \* number of blocks the allocator can hand out at a time
MaxVal == 2        \* element values are 1..MaxVal

Values == 1..MaxVal
Blocks == 1..MaxBlocks
NULL == 0          \* the null pointer
Raw == 0           \* a slot that holds no constructed element
NoFail == -1       \* injected into a call: nothing fails
AllocFail == -2    \* injected into a call: operator new throws std::bad_alloc
Tmp == 0           \* the local object `copy` of operator=(const vector&)
Vecs == {1, 2}     \* the vector objects of the program
VecIds == Vecs \cup {Tmp}

VARIABLES
    vec,      \* vec[v]: the object v: live, size_, capacity_, data_
    heap,     \* heap[b]: the block b: st, cap, slots
    dlog,     \* the elements destroyed by the last call, in order: <<block, slot>>
    fault,    \* undefined behaviour the program has run into (empty: none)
    last,     \* the last call: operation, object, arguments, outcome
    mem,      \* the number of element slots the memory holds
    objs,     \* the vector objects the program declares
    ret,      \* the iterator the last call returned: <<block, offset>>
    pushed    \* SpecPush only: the values of the successful push_back calls

vars == <<vec, heap, dlog, fault, last, mem, objs, ret, pushed>>

\* ---- the machine state the operations work on ---------------------------
NoVec == [live |-> FALSE, size_ |-> 0, capacity_ |-> 0, data_ |-> NULL]
EmptyVec == [live |-> TRUE, size_ |-> 0, capacity_ |-> 0, data_ |-> NULL]
FreeBlock == [st |-> "free", cap |-> 0, slots |-> <<>>]

Machine == [vec |-> vec, heap |-> heap, dlog |-> <<>>, fault |-> {}, mem |-> mem]

SetVec(M, v, f, x) == [M EXCEPT !.vec[v][f] = x]
Fault(M, what) == [M EXCEPT !.fault = @ \cup {what}]

\* the element slots of the blocks 1..b that are allocated
RECURSIVE UsedUpTo(_, _)
UsedUpTo(M, b) ==
    IF b = 0 THEN 0
    ELSE UsedUpTo(M, b - 1) + (IF M.heap[b].st = "alloc" THEN M.heap[b].cap ELSE 0)

Used(M) == UsedUpTo(M, MaxBlocks)

\* operator new can satisfy a request for n element slots; it throws
\* std::bad_alloc when it cannot
CanAlloc(M, n) ==
    /\ \E b \in Blocks : M.heap[b].st = "free"
    /\ Used(M) + n <= M.mem

\* the address operator new returns next
NewPtr(M) == CHOOSE b \in Blocks :
    /\ M.heap[b].st = "free"
    /\ \A c \in Blocks : M.heap[c].st = "free" => b <= c

\* operator new(n * sizeof(value_type)): a fresh block of n raw slots, also for n = 0
operator_new(M, n) ==
    [M EXCEPT !.heap[NewPtr(M)] =
        [st |-> "alloc", cap |-> n, slots |-> [i \in 1..n |-> Raw]]]

\* operator delete(p): nothing for the null pointer
operator_delete(M, p) ==
    IF p = NULL THEN M
    ELSE IF M.heap[p].st = "free" THEN Fault(M, "double_free")
    ELSE [M EXCEPT !.heap[p] = FreeBlock]

\* a slot of a block that exists
ValidSlot(M, p, i) ==
    /\ p # NULL
    /\ M.heap[p].st = "alloc"
    /\ i >= 0
    /\ i < M.heap[p].cap

\* *(p + i)
Deref(M, p, i) == IF ValidSlot(M, p, i) THEN M.heap[p].slots[i + 1] ELSE Raw

\* new (p + i) value_type(x)
construct_at(M, p, i, x) ==
    IF ~ValidSlot(M, p, i) THEN Fault(M, "bad_write")
    ELSE IF x = Raw THEN Fault(M, "bad_read")
    ELSE [M EXCEPT !.heap[p].slots[i + 1] = x]

\* (p + i)->~value_type()
destroy_at(M, p, i) ==
    IF ~ValidSlot(M, p, i) \/ Deref(M, p, i) = Raw THEN Fault(M, "bad_destroy")
    ELSE [M EXCEPT !.heap[p].slots[i + 1] = Raw,
                   !.dlog = Append(@, <<p, i>>)]

\* std::swap(p[i], p[j])
swap_at(M, p, i, j) ==
    IF ~ValidSlot(M, p, i) \/ ~ValidSlot(M, p, j) THEN Fault(M, "bad_write")
    ELSE IF Deref(M, p, i) = Raw \/ Deref(M, p, j) = Raw THEN Fault(M, "bad_read")
    ELSE [M EXCEPT !.heap[p].slots[i + 1] = M.heap[p].slots[j + 1],
                   !.heap[p].slots[j + 1] = M.heap[p].slots[i + 1]]

\* std::destroy(p + lo, p + hi): front to back
RECURSIVE destroy_range(_, _, _, _)
destroy_range(M, p, lo, hi) ==
    IF lo >= hi THEN M
    ELSE destroy_range(destroy_at(M, p, lo), p, lo + 1, hi)

\* std::destroy over the reverse iterators of [begin, begin + n): back to front
RECURSIVE reverse_destroy_n(_, _, _)
reverse_destroy_n(M, begin, n) ==
    IF n = 0 THEN M
    ELSE reverse_destroy_n(destroy_at(M, begin, n - 1), begin, n - 1)

\* copy_loop with the source iterator never advanced
RECURSIVE copy_loop_stuck_source(_, _, _, _, _, _)
copy_loop_stuck_source(M, dest, from, n, i, failAt) ==
    IF i >= n THEN [m |-> M, threw |-> FALSE]
    ELSE IF i = failAt THEN [m |-> reverse_destroy_n(M, dest, i), threw |-> TRUE]
    ELSE copy_loop_stuck_source(construct_at(M, dest, i, Deref(M, from, 0)),
                                dest, from, n, i + 1, failAt)

\* copies from[0..n) into dest[0..n); the copy of element failAt throws
RECURSIVE copy_loop(_, _, _, _, _, _)
copy_loop(M, dest, from, n, i, failAt) ==
    IF i >= n THEN [m |-> M, threw |-> FALSE]
    ELSE IF i = failAt THEN [m |-> reverse_destroy_n(M, dest, i), threw |-> TRUE]
    ELSE copy_loop(construct_at(M, dest, i, Deref(M, from, i)),
                   dest, from, n, i + 1, failAt)

\* the bulk copy without the destruction of what was built when a copy throws
uninitialized_copy_n_without_destroy(M, dest, from, n, failAt) ==
    IF failAt \in 0 .. n - 1
    THEN [m |-> copy_loop(M, dest, from, failAt, 0, NoFail).m, threw |-> TRUE]
    ELSE copy_loop(M, dest, from, n, 0, failAt)

uninitialized_copy_n_with_reverse_destroy(M, dest, from, n, failAt) ==
    copy_loop(M, dest, from, n, 0, failAt)

\* ---- private members ----------------------------------------------------
\* the outcome of a call: the machine state it leaves and how it returned
Ok(M) == [m |-> M, res |-> "ok"]
Threw(M, what) == [m |-> M, res |-> what]

\* reallocate that returns the null pointer when operator new fails
reallocate_returns_null(M, v, new_capacity, inj) ==
    IF ~(inj # AllocFail /\ CanAlloc(M, new_capacity))
    THEN [m |-> M, res |-> "ok", ptr |-> NULL]
    ELSE LET new_data == NewPtr(M)
             c == uninitialized_copy_n_with_reverse_destroy(
                      operator_new(M, new_capacity), new_data,
                      M.vec[v].data_, M.vec[v].size_, inj)
         IN IF c.threw
            THEN [m |-> operator_delete(c.m, new_data), res |-> "copy_throw",
                  ptr |-> NULL]
            ELSE [m |-> c.m, res |-> "ok", ptr |-> new_data]

\* pointer reallocate(new_capacity): the new block with the elements copied
\* into it; the object itself is not touched
reallocate(M, v, new_capacity, inj) ==
    IF ~(inj # AllocFail /\ CanAlloc(M, new_capacity))
    THEN [m |-> M, res |-> "bad_alloc", ptr |-> NULL]
    ELSE LET new_data == NewPtr(M)
             c == uninitialized_copy_n_with_reverse_destroy(
                      operator_new(M, new_capacity), new_data,
                      M.vec[v].data_, M.vec[v].size_, inj)
         IN IF c.threw
            THEN [m |-> operator_delete(c.m, new_data), res |-> "copy_throw",
                  ptr |-> NULL]
            ELSE [m |-> c.m, res |-> "ok", ptr |-> new_data]

\* void swap_data(new_data, new_capacity)
swap_data(M, v, new_data, new_capacity) ==
    LET M1 == reverse_destroy_n(M, M.vec[v].data_, M.vec[v].size_)
        M2 == operator_delete(M1, M.vec[v].data_)
    IN SetVec(SetVec(M2, v, "data_", new_data), v, "capacity_", new_capacity)

\* ---- public members -----------------------------------------------------
\* vector() noexcept = default
default_ctor(M, v) == [M EXCEPT !.vec[v] = EmptyVec]

\* swap with the exchange of size_ left out
swap_keeps_size(M, v, other) ==
    [M EXCEPT !.vec[v] = [M.vec[other] EXCEPT !.size_ = M.vec[v].size_],
              !.vec[other] = [M.vec[v] EXCEPT !.size_ = M.vec[other].size_]]

\* void swap(vector &other) noexcept
swap(M, v, other) ==
    [M EXCEPT !.vec[v] = M.vec[other], !.vec[other] = M.vec[v]]

\* a copy constructor that copies the members: both objects share the block
copy_ctor_shallow(M, v, other, inj) ==
    Ok([M EXCEPT !.vec[v] = [live |-> TRUE, size_ |-> M.vec[other].size_,
                             capacity_ |-> M.vec[other].capacity_,
                             data_ |-> M.vec[other].data_]])

\* vector(const vector &other): the object v is built from other; when the
\* constructor throws there is no object v
copy_ctor(M, v, other, inj) ==
    LET o == M.vec[other]
        wants == o.capacity_ # 0
    IN IF wants /\ ~(inj # AllocFail /\ CanAlloc(M, o.size_)) THEN Threw(M, "bad_alloc")
       ELSE LET p == IF wants THEN NewPtr(M) ELSE NULL
                M1 == IF wants THEN operator_new(M, o.size_) ELSE M
                c == uninitialized_copy_n_with_reverse_destroy(
                         M1, p, o.data_, o.size_, inj)
            IN IF c.threw THEN Threw(operator_delete(c.m, p), "copy_throw")
               ELSE Ok([c.m EXCEPT !.vec[v] =
                        [live |-> TRUE, size_ |-> o.size_,
                         capacity_ |-> o.size_, data_ |-> p]])

\* a move constructor that resets capacity_ of the source and not its size_
move_ctor_keeps_size(M, v, other) ==
    LET o == M.vec[other]
    IN [M EXCEPT !.vec[v] = [live |-> TRUE, size_ |-> o.size_,
                             capacity_ |-> o.capacity_, data_ |-> o.data_],
                 !.vec[other].data_ = NULL,
                 !.vec[other].capacity_ = 0]

\* vector(vector &&other)
move_ctor(M, v, other) ==
    LET o == M.vec[other]
    IN [M EXCEPT !.vec[v] = [live |-> TRUE, size_ |-> o.size_,
                             capacity_ |-> o.capacity_, data_ |-> o.data_],
                 !.vec[other].data_ = NULL,
                 !.vec[other].size_ = 0]

\* ~vector() noexcept
dtor(M, v) ==
    LET M1 == reverse_destroy_n(M, M.vec[v].data_, M.vec[v].size_)
        M2 == operator_delete(M1, M.vec[v].data_)
    IN [M2 EXCEPT !.vec[v] = NoVec]

\* operator=(const vector &) without the test this != &other
copy_assign_no_self_check(M, v, other, inj) ==
    LET c == copy_ctor(M, Tmp, other, inj)
    IN IF c.res # "ok" THEN c
       ELSE Ok(dtor(swap(c.m, v, Tmp), Tmp))

\* vector &operator=(const vector &other)
copy_assign(M, v, other, inj) ==
    IF v = other THEN Ok(M)
    ELSE LET c == copy_ctor(M, Tmp, other, inj)
         IN IF c.res # "ok" THEN c
            ELSE Ok(dtor(swap(c.m, v, Tmp), Tmp))

\* a move assignment that copies the members of the source and leaves the
\* source as it is
move_assign_copies_members(M, v, other) ==
    IF v = other THEN M ELSE [M EXCEPT !.vec[v] = M.vec[other]]

\* vector &operator=(vector &&other)
move_assign(M, v, other) == IF v = other THEN M ELSE swap(M, v, other)

\* push_back that installs the new block before it constructs the new element
push_back_commit_early(M, v, element, inj) ==
    LET o == M.vec[v]
    IN IF o.size_ = o.capacity_
       THEN LET new_capacity == o.capacity_ * 2 + 1
                r == reallocate(M, v, new_capacity, inj)
            IN IF r.res # "ok" THEN Threw(r.m, r.res)
               ELSE LET M1 == swap_data(r.m, v, r.ptr, new_capacity)
                    IN IF inj = o.size_ THEN Threw(M1, "copy_throw")
                       ELSE Ok(SetVec(construct_at(M1, r.ptr, o.size_, element),
                                      v, "size_", o.size_ + 1))
       ELSE IF inj = o.size_ THEN Threw(M, "copy_throw")
       ELSE Ok(SetVec(construct_at(M, o.data_, o.size_, element),
                      v, "size_", o.size_ + 1))

\* push_back that doubles the capacity (1 from 0)
push_back_doubling(M, v, element, inj) ==
    LET o == M.vec[v]
    IN IF o.size_ = o.capacity_
       THEN LET new_capacity == IF o.capacity_ = 0 THEN 1 ELSE o.capacity_ * 2
                r == reallocate(M, v, new_capacity, inj)
            IN IF r.res # "ok" THEN Threw(r.m, r.res)
               ELSE IF inj = o.size_
               THEN Threw(operator_delete(
                              reverse_destroy_n(r.m, r.ptr, o.size_), r.ptr),
                          "copy_throw")
               ELSE LET M1 == construct_at(r.m, r.ptr, o.size_, element)
                        M2 == swap_data(M1, v, r.ptr, new_capacity)
                    IN Ok(SetVec(M2, v, "size_", o.size_ + 1))
       ELSE IF inj = o.size_ THEN Threw(M, "copy_throw")
       ELSE Ok(SetVec(construct_at(M, o.data_, o.size_, element),
                      v, "size_", o.size_ + 1))

\* void push_back(const T &element); inj = size_ makes the constructor of
\* the new element throw
push_back(M, v, element, inj) ==
    LET o == M.vec[v]
    IN IF o.size_ = o.capacity_
       THEN LET new_capacity == o.capacity_ * 2 + 1
                r == reallocate(M, v, new_capacity, inj)
            IN IF r.res # "ok" THEN Threw(r.m, r.res)
               ELSE IF inj = o.size_
               THEN Threw(operator_delete(
                              reverse_destroy_n(r.m, r.ptr, o.size_), r.ptr),
                          "copy_throw")
               ELSE LET M1 == construct_at(r.m, r.ptr, o.size_, element)
                        M2 == swap_data(M1, v, r.ptr, new_capacity)
                    IN Ok(SetVec(M2, v, "size_", o.size_ + 1))
       ELSE IF inj = o.size_ THEN Threw(M, "copy_throw")
       ELSE Ok(SetVec(construct_at(M, o.data_, o.size_, element),
                      v, "size_", o.size_ + 1))

\* void pop_back()
pop_back(M, v) ==
    LET n == M.vec[v].size_ - 1
    IN destroy_at(SetVec(M, v, "size_", n), M.vec[v].data_, n)

\* reserve that also reallocates when new_capacity equals the capacity
reserve_on_equal(M, v, new_capacity, inj) ==
    IF new_capacity >= M.vec[v].capacity_
    THEN LET r == reallocate(M, v, new_capacity, inj)
         IN IF r.res # "ok" THEN Threw(r.m, r.res)
            ELSE Ok(swap_data(r.m, v, r.ptr, new_capacity))
    ELSE Ok(M)

\* void reserve(size_t new_capacity)
reserve(M, v, new_capacity, inj) ==
    IF new_capacity > M.vec[v].capacity_
    THEN LET r == reallocate(M, v, new_capacity, inj)
         IN IF r.res # "ok" THEN Threw(r.m, r.res)
            ELSE Ok(swap_data(r.m, v, r.ptr, new_capacity))
    ELSE Ok(M)

\* shrink_to_fit that moves to the smaller block and records the old capacity
shrink_to_fit_keeps_capacity(M, v, inj) ==
    LET o == M.vec[v]
    IN IF o.size_ = 0
       THEN Ok(SetVec(SetVec(M, v, "data_", NULL), v, "capacity_", 0))
       ELSE IF o.size_ # o.capacity_
       THEN LET r == reallocate(M, v, o.size_, inj)
            IN IF r.res # "ok" THEN Threw(r.m, r.res)
               ELSE Ok(swap_data(r.m, v, r.ptr, o.capacity_))
       ELSE Ok(M)

\* void shrink_to_fit()
shrink_to_fit(M, v, inj) ==
    LET o == M.vec[v]
    IN IF o.size_ = 0
       THEN Ok(SetVec(SetVec(M, v, "data_", NULL), v, "capacity_", 0))
       ELSE IF o.size_ # o.capacity_
       THEN LET r == reallocate(M, v, o.size_, inj)
            IN IF r.res # "ok" THEN Threw(r.m, r.res)
               ELSE Ok(swap_data(r.m, v, r.ptr, o.size_))
       ELSE Ok(M)

\* void clear() noexcept
clear(M, v) ==
    SetVec(reverse_destroy_n(M, M.vec[v].data_, M.vec[v].size_), v, "size_", 0)

\* the loop of insert: the new last element is exchanged down to ret_it
RECURSIVE insert_loop(_, _, _, _)
insert_loop(M, p, lst, ret_it) ==
    IF lst = ret_it THEN M
    ELSE insert_loop(swap_at(M, p, lst, lst - 1), p, lst - 1, ret_it)

\* iterator insert(const_iterator pos, const T &value), pos = begin() + index
insert(M, v, index, value, inj) ==
    LET r == push_back(M, v, value, inj)
    IN IF r.res # "ok" THEN r
       ELSE Ok(insert_loop(r.m, r.m.vec[v].data_, r.m.vec[v].size_ - 1, index))

\* the loop of erase: the elements after the range are exchanged into it
RECURSIVE erase_loop(_, _, _, _, _)
erase_loop(M, p, first_, last_, end) ==
    IF last_ = end THEN [m |-> M, first_ |-> first_]
    ELSE erase_loop(swap_at(M, p, first_, last_), p, first_ + 1, last_ + 1, end)

\* erase that drops everything from first on
erase_truncates(M, v, first, lst) ==
    LET o == M.vec[v]
        l == erase_loop(M, o.data_, first, lst, o.size_)
    IN SetVec(destroy_range(l.m, o.data_, first, o.size_), v, "size_", first)

\* iterator erase(const_iterator first, const_iterator last)
erase(M, v, first, lst) ==
    LET o == M.vec[v]
        l == erase_loop(M, o.data_, first, lst, o.size_)
    IN SetVec(destroy_range(l.m, o.data_, l.first_, o.size_), v, "size_", l.first_)

\* iterator erase(const_iterator pos)
erase_pos(M, v, pos) == erase(M, v, pos, pos + 1)

\* iterators are pointers: a block and an offset in it
NoIt == <<NULL, 0>>

\* ret_it of insert: begin() + index, taken after push_back in the machine
\* state M that push_back left
insert_ret(M, v, index) == <<M.vec[v].data_, index>>

\* ret_it of erase: no_const(first), taken on entry in the machine state M
erase_ret(M, v, first) == <<M.vec[v].data_, first>>

\* ---- the program --------------------------------------------------------
NoCall == [op |-> "none", v |-> 0, w |-> 0, a |-> 0, b |-> 0,
           res |-> "ok", k |-> NoFail]

Call(op, v, w, a, b, res, failAt) ==
    [op |-> op, v |-> v, w |-> w, a |-> a, b |-> b, res |-> res,
     k |-> IF res = "copy_throw" THEN failAt ELSE NoFail]

InitObjects ==
    /\ vec = [v \in VecIds |-> IF v = 1 THEN EmptyVec ELSE NoVec]
    /\ heap = [b \in Blocks |-> FreeBlock]
    /\ dlog = <<>>
    /\ fault = {}
    /\ last = NoCall
    /\ ret = NoIt
    /\ pushed = <<>>

\* a program with one vector object, or one with two and a smaller memory
Init ==
    /\ InitObjects
    /\ \/ objs = {1} /\ mem = MaxSlots
       \/ objs = Vecs /\ mem = TwoSlots

\* what goes wrong in a call that constructs up to n elements: nothing,
\* operator new throws, or the constructor of the i-th element throws
Inject(n) == {NoFail, AllocFail} \cup (0 .. n - 1)

\* The call op returned with outcome R.  A call that ran into undefined
\* behaviour either went on as if the offending access had not been made, or
\* was stopped at it with the memory as it was.
\* it is the iterator the call returns when it returns normally.
ReturnIt(R, op, v, w, a, b, failAt, it) ==
    IF R.m.fault = {}
    THEN /\ vec' = R.m.vec
         /\ heap' = R.m.heap
         /\ dlog' = R.m.dlog
         /\ fault' = {}
         /\ last' = Call(op, v, w, a, b, R.res, failAt)
         /\ ret' = IF R.res = "ok" THEN it ELSE NoIt
    ELSE /\ fault' = R.m.fault
         /\ last' = Call(op, v, w, a, b, "fault", failAt)
         /\ ret' = NoIt
         /\ \/ vec' = R.m.vec /\ heap' = R.m.heap /\ dlog' = R.m.dlog
            \/ vec' = vec /\ heap' = heap /\ dlog' = <<>>

\* a call that returns no iterator
Return(R, op, v, w, a, b, failAt) == ReturnIt(R, op, v, w, a, b, failAt, NoIt)

Live(v) == vec[v].live

\* the program is between two calls: it has not run into undefined behaviour
\* and the caller has taken note of the outcome of the last call
Running == fault = {} /\ last = NoCall

\* the caller takes note of the outcome of the call and goes on
Resume ==
    /\ fault = {}
    /\ last # NoCall
    /\ last' = NoCall
    /\ ret' = NoIt
    /\ dlog' = <<>>
    /\ UNCHANGED <<vec, heap, fault, mem, objs, pushed>>

DefaultCtor(v) ==
    /\ Running /\ ~Live(v)
    /\ Return(Ok(default_ctor(Machine, v)), "default_ctor", v, 0, 0, 0, NoFail)
    /\ UNCHANGED <<mem, objs, pushed>>

CopyCtor(v, w) ==
    /\ Running /\ ~Live(v) /\ Live(w)
    /\ \E inj \in Inject(vec[w].size_) :
         Return(copy_ctor(Machine, v, w, inj),
                "copy_ctor", v, w, 0, 0, inj)
    /\ UNCHANGED <<mem, objs, pushed>>

MoveCtor(v, w) ==
    /\ Running /\ ~Live(v) /\ Live(w)
    /\ Return(Ok(move_ctor(Machine, v, w)), "move_ctor", v, w, 0, 0, NoFail)
    /\ UNCHANGED <<mem, objs, pushed>>

CopyAssign(v, w) ==
    /\ Running /\ Live(v) /\ Live(w)
    /\ \E inj \in Inject(vec[w].size_) :
         Return(copy_assign(Machine, v, w, inj),
                "copy_assign", v, w, 0, 0, inj)
    /\ UNCHANGED <<mem, objs, pushed>>

MoveAssign(v, w) ==
    /\ Running /\ Live(v) /\ Live(w)
    /\ Return(Ok(move_assign(Machine, v, w)), "move_assign", v, w, 0, 0, NoFail)
    /\ UNCHANGED <<mem, objs, pushed>>

Swap(v, w) ==
    /\ Running /\ Live(v) /\ Live(w)
    /\ Return(Ok(swap(Machine, v, w)), "swap", v, w, 0, 0, NoFail)
    /\ UNCHANGED <<mem, objs, pushed>>

Dtor(v) ==
    /\ Running /\ Live(v)
    /\ Return(Ok(dtor(Machine, v)), "dtor", v, 0, 0, 0, NoFail)
    /\ UNCHANGED <<mem, objs, pushed>>

PushBackCall(v, x, inj) ==
    Return(push_back(Machine, v, x, inj),
           "push_back", v, 0, x, 0, inj)

PushBack(v) ==
    /\ Running /\ Live(v)
    /\ \E x \in Values, inj \in Inject(vec[v].size_ + 1) :
         PushBackCall(v, x, inj)
    /\ UNCHANGED <<mem, objs, pushed>>

\* precondition: the vector is not empty
PopBack(v) ==
    /\ Running /\ Live(v) /\ vec[v].size_ > 0
    /\ Return(Ok(pop_back(Machine, v)), "pop_back", v, 0, 0, 0, NoFail)
    /\ UNCHANGED <<mem, objs, pushed>>

Reserve(v) ==
    /\ Running /\ Live(v)
    /\ \E n \in 0 .. MaxSlots, inj \in Inject(vec[v].size_) :
         Return(reserve(Machine, v, n, inj),
                "reserve", v, 0, n, 0, inj)
    /\ UNCHANGED <<mem, objs, pushed>>

ShrinkToFit(v) ==
    /\ Running /\ Live(v)
    /\ \E inj \in Inject(vec[v].size_) :
         Return(shrink_to_fit(Machine, v, inj),
                "shrink_to_fit", v, 0, 0, 0, inj)
    /\ UNCHANGED <<mem, objs, pushed>>

Clear(v) ==
    /\ Running /\ Live(v)
    /\ Return(Ok(clear(Machine, v)), "clear", v, 0, 0, 0, NoFail)
    /\ UNCHANGED <<mem, objs, pushed>>

\* precondition: pos in [begin(), end()]
Insert(v) ==
    /\ Running /\ Live(v)
    /\ \E index \in 0 .. vec[v].size_, x \in Values, inj \in Inject(vec[v].size_ + 1) :
         ReturnIt(insert(Machine, v, index, x, inj),
                  "insert", v, 0, index, x, inj,
                  insert_ret(insert(Machine, v, index, x, inj).m, v, index))
    /\ UNCHANGED <<mem, objs, pushed>>

\* precondition: [first, last) a range of [begin(), end()]
Erase(v) ==
    /\ Running /\ Live(v)
    /\ \E first \in 0 .. vec[v].size_ : \E lst \in first .. vec[v].size_ :
         ReturnIt(Ok(erase(Machine, v, first, lst)),
                  "erase", v, 0, first, lst, NoFail, erase_ret(Machine, v, first))
    /\ UNCHANGED <<mem, objs, pushed>>

\* precondition: pos in [begin(), end())
ErasePos(v) ==
    /\ Running /\ Live(v)
    /\ \E pos \in 0 .. vec[v].size_ - 1 :
         ReturnIt(Ok(erase_pos(Machine, v, pos)),
                  "erase_pos", v, 0, pos, 0, NoFail, erase_ret(Machine, v, pos))
    /\ UNCHANGED <<mem, objs, pushed>>

Next ==
    \/ \E v \in objs : DefaultCtor(v)
    \/ \E v \in objs, w \in objs : CopyCtor(v, w)
    \/ \E v \in objs, w \in objs : MoveCtor(v, w)
    \/ \E v \in objs, w \in objs : CopyAssign(v, w)
    \/ \E v \in objs, w \in objs : MoveAssign(v, w)
    \/ \E v \in objs, w \in objs : Swap(v, w)
    \/ \E v \in objs : Dtor(v)
    \/ \E v \in objs : PushBack(v)
    \/ \E v \in objs : PopBack(v)
    \/ \E v \in objs : Reserve(v)
    \/ \E v \in objs : ShrinkToFit(v)
    \/ \E v \in objs : Clear(v)
    \/ \E v \in objs : Insert(v)
    \/ \E v \in objs : Erase(v)
    \/ \E v \in objs : ErasePos(v)
    \/ Resume

Spec == Init /\ [][Next]_vars

\* ---- push_back alone, from the empty vector ------------------------------
PushSeq ==
    /\ Running
    /\ \E x \in Values, inj \in Inject(vec[1].size_ + 1) :
         /\ PushBackCall(1, x, inj)
         /\ pushed' = IF last'.res = "ok" THEN Append(pushed, x) ELSE pushed
    /\ UNCHANGED <<mem, objs>>

NextPush == PushSeq \/ Resume

InitPush == InitObjects /\ objs = {1} /\ mem = PushSlots

SpecPush == InitPush /\ [][NextPush]_vars

\* ---- what a caller observes ----------------------------------------------
\* the element sequence data_[0 .. size_) of v in the state of objects vc and heap hp
ElemsIn(vc, hp, v) ==
    [i \in 1 .. vc[v].size_ |-> Deref([heap |-> hp], vc[v].data_, i - 1)]

\* size(), capacity() and the elements
ObsIn(vc, hp, v) ==
    <<vc[v].live, vc[v].size_, vc[v].capacity_, ElemsIn(vc, hp, v)>>

Elems(v) == ElemsIn(vec, heap, v)
Obs(v) == ObsIn(vec, heap, v)

TypeOK ==
    /\ \A v \in VecIds : vec[v].size_ \in Nat /\ vec[v].capacity_ \in Nat
    /\ vec[Tmp] = NoVec

\* ---- properties ----------------------------------------------------------

\* C1: when an element constructor throws in reserve, in a push_back that
\* grows the storage (while the old elements are relocated or while the new
\* element is constructed in the new block) or in the copy constructor, then
\* after the call size, capacity and element sequence of every vector are
\* what they were before the call.
C1_StrongOnElementFailure ==
    [][(/\ last'.res = "copy_throw"
        /\ \/ last'.op \in {"reserve", "copy_ctor"}
           \/ /\ last'.op = "push_back"
              /\ vec[last'.v].size_ = vec[last'.v].capacity_)
       => \A u \in Vecs : ObsIn(vec', heap', u) = Obs(u)]_vars

\* a push_back that grew a vector of at least one element threw while it
\* constructed the new element in the new block
C1_Witness ==
    /\ last.op = "push_back"
    /\ last.res = "copy_throw"
    /\ vec[last.v].size_ = vec[last.v].capacity_
    /\ vec[last.v].size_ >= 1
    /\ last.k = vec[last.v].size_
    /\ Len(dlog) = last.k

\* C2: for every vector, storage is null exactly when capacity is 0, and
\* otherwise storage is an allocated block of exactly capacity slots.
C2_StorageMatchesCapacity ==
    \A v \in Vecs : vec[v].live =>
        /\ vec[v].data_ = NULL <=> vec[v].capacity_ = 0
        /\ vec[v].data_ # NULL =>
              /\ heap[vec[v].data_].st = "alloc"
              /\ heap[vec[v].data_].cap = vec[v].capacity_

\* C3: after move construction the new vector has the storage, size and
\* capacity (and so the elements) the source had, and the source is empty:
\* size 0, capacity 0, no storage.
C3_MoveCtorEmptiesSource ==
    [][last'.op = "move_ctor" =>
         /\ vec'[last'.v].data_ = vec[last'.w].data_
         /\ vec'[last'.v].size_ = vec[last'.w].size_
         /\ vec'[last'.v].capacity_ = vec[last'.w].capacity_
         /\ ElemsIn(vec', heap', last'.v) = ElemsIn(vec, heap, last'.w)
         /\ vec'[last'.w].size_ = 0
         /\ vec'[last'.w].capacity_ = 0
         /\ vec'[last'.w].data_ = NULL]_vars

\* C4 as claimed: after a = move(b) with a and b distinct, b has size 0 and a
\* holds the elements b had; a self move assignment changes nothing.
C4_MoveAssignEmptiesSource ==
    [][last'.op = "move_assign" =>
         IF last'.v # last'.w
         THEN /\ vec'[last'.w].size_ = 0
              /\ ElemsIn(vec', heap', last'.v) = ElemsIn(vec, heap, last'.w)
         ELSE \A u \in Vecs : ObsIn(vec', heap', u) = Obs(u)]_vars

\* C4 as the code has it: after a = move(b) with a and b distinct, a holds the
\* elements b had and b holds the elements a had (so b has size 0 only when a
\* was empty); a self move assignment changes nothing.
C4_MoveAssignExchanges ==
    [][last'.op = "move_assign" =>
         IF last'.v # last'.w
         THEN /\ ElemsIn(vec', heap', last'.v) = ElemsIn(vec, heap, last'.w)
              /\ ElemsIn(vec', heap', last'.w) = ElemsIn(vec, heap, last'.v)
         ELSE \A u \in Vecs : ObsIn(vec', heap', u) = Obs(u)]_vars

\* a move assignment between two distinct vectors that both held elements,
\* of different values
C4_Witness ==
    /\ last.op = "move_assign"
    /\ last.v # last.w
    /\ vec[last.v].size_ > 0
    /\ vec[last.w].size_ > 0
    /\ Elems(last.v) # Elems(last.w)

\* C5: shrink_to_fit on a vector of size 0 that owns a block gives the block
\* back to the allocator and leaves capacity 0 and no storage; on a vector
\* without storage it changes nothing.
C5_ShrinkEmptyReleases ==
    [][(last'.op = "shrink_to_fit" /\ vec[last'.v].size_ = 0) =>
         IF vec[last'.v].data_ # NULL
         THEN /\ heap'[vec[last'.v].data_].st = "free"
              /\ vec'[last'.v].capacity_ = 0
              /\ vec'[last'.v].data_ = NULL
         ELSE vec' = vec /\ heap' = heap]_vars

\* C6: the elements a call destroys are destroyed in strictly decreasing slot
\* order.
C6_ReverseDestruction ==
    \A i \in DOMAIN dlog : \A j \in DOMAIN dlog :
        i < j => dlog[i][1] = dlog[j][1] /\ dlog[i][2] > dlog[j][2]

\* C7: in a run of push_back calls on the initially empty vector, size is the
\* number of successful calls and element i is the value of call i + 1.
C7_PushBackSequence ==
    /\ vec[1].size_ = Len(pushed)
    /\ Elems(1) = pushed

\* four values were pushed, not all the same, and the storage grew twice
\* with elements to relocate
C7_Witness ==
    /\ Len(pushed) >= 4
    /\ pushed[1] # pushed[2]
    /\ last.res = "ok"
    /\ vec[1].capacity_ = 7

\* the capacities 0, 1, 3, 7, 15, ...
RECURSIVE IsGrowthCap(_)
IsGrowthCap(c) ==
    \/ c = 0
    \/ c > 0 /\ c % 2 = 1 /\ IsGrowthCap((c - 1) \div 2)

\* C8: a push_back changes capacity only when size = capacity before the
\* call, and then to 2 * capacity + 1; so the capacities of the initially
\* empty vector under push_back are 0, 1, 3, 7, 15, ... in this order.
C8_GrowthPolicy ==
    [][last'.op = "push_back" =>
         /\ vec'[1].capacity_ # vec[1].capacity_ =>
               /\ vec[1].size_ = vec[1].capacity_
               /\ vec'[1].capacity_ = 2 * vec[1].capacity_ + 1
         /\ IsGrowthCap(vec'[1].capacity_)]_vars

\* a push_back has just grown the storage from 3 to 7 slots
C8_Witness ==
    /\ last.op = "push_back"
    /\ last.res = "ok"
    /\ vec[1].capacity_ = 7
    /\ vec[1].size_ = 4

\* C9: a successful reserve(n) leaves size and elements as they were and
\* capacity >= n; with n <= capacity it changes nothing, neither the capacity
\* nor the block; with n > capacity the new capacity is n.
C9_Reserve ==
    [][(last'.op = "reserve" /\ last'.res = "ok") =>
         /\ vec'[last'.v].size_ = vec[last'.v].size_
         /\ ElemsIn(vec', heap', last'.v) = Elems(last'.v)
         /\ vec'[last'.v].capacity_ >= last'.a
         /\ last'.a <= vec[last'.v].capacity_ => vec' = vec /\ heap' = heap
         /\ last'.a > vec[last'.v].capacity_ => vec'[last'.v].capacity_ = last'.a]_vars

\* a reserve has just moved two elements of different values to a larger block
C9_Witness ==
    /\ last.op = "reserve"
    /\ last.res = "ok"
    /\ vec[last.v].capacity_ = last.a
    /\ vec[last.v].size_ = 2
    /\ Len(dlog) = 2
    /\ Elems(last.v)[1] # Elems(last.v)[2]

\* the calls that change one vector
MutatingCalls ==
    {"push_back", "pop_back", "reserve", "shrink_to_fit", "clear", "insert",
     "erase", "erase_pos"}

\* C10: the copy constructor gives a vector with the elements of the source
\* in a block that is not the source's, and leaves the source as it was; a
\* later mutating call on one vector leaves size, capacity and elements of
\* the other vectors as they were.
C10_CopyIsIndependent ==
    [][/\ (last'.op = "copy_ctor" /\ last'.res = "ok") =>
            /\ ElemsIn(vec', heap', last'.v) = Elems(last'.w)
            /\ vec'[last'.v].data_ # NULL =>
                  vec'[last'.v].data_ # vec'[last'.w].data_
            /\ ObsIn(vec', heap', last'.w) = Obs(last'.w)
       /\ last'.op \in MutatingCalls =>
            \A u \in Vecs \ {last'.v} : ObsIn(vec', heap', u) = Obs(u)]_vars

\* an element of one vector has just been destroyed while another vector
\* with a block of its own holds the same value
C10_Witness ==
    /\ last.op = "pop_back"
    /\ Len(dlog) = 1
    /\ \E u \in Vecs \ {last.v} :
          /\ vec[u].live
          /\ vec[u].size_ = 1
          /\ vec[u].data_ # NULL
          /\ vec[last.v].data_ # NULL
          /\ vec[u].data_ # vec[last.v].data_

\* the machine state a step leaves, for the calls a property makes after it
MachineAfter ==
    [vec |-> vec', heap |-> heap', dlog |-> <<>>, fault |-> fault', mem |-> mem']

\* the calls that came back with an exception
Thrown == {"bad_alloc", "copy_throw"}

\* C11: for every vector, position p in 0..size and value, an insert(p, v)
\* that does not throw, followed at once by erase(p), gives back the element
\* sequence (and size) that held before the insert.
C11_InsertEraseRoundTrip ==
    [][(last'.op = "insert" /\ last'.res \notin Thrown) =>
         LET M2 == erase_pos(MachineAfter, last'.v, last'.a)
         IN /\ M2.fault = {}
            /\ M2.vec[last'.v].size_ = vec[last'.v].size_
            /\ ElemsIn(M2.vec, M2.heap, last'.v) = Elems(last'.v)]_vars

\* the second position of the range an erase call removes
EraseEnd(c) == IF c.op = "erase_pos" THEN c.a + 1 ELSE c.b

\* C12: erase(f, l) with 0 <= f <= l <= size leaves old[0..f) followed by
\* old[l..size), takes l - f from size, leaves capacity as it was, destroys
\* exactly l - f elements and returns position f of the storage; with f = l
\* the vector and the memory are unchanged.
C12_EraseRange ==
    [][last'.op \in {"erase", "erase_pos"} =>
         LET v == last'.v
             f == last'.a
             l == EraseEnd(last')
             n == vec[v].size_
         IN /\ fault' = {}
            /\ vec'[v].size_ = n - (l - f)
            /\ ElemsIn(vec', heap', v) =
                  SubSeq(Elems(v), 1, f) \o SubSeq(Elems(v), l + 1, n)
            /\ vec'[v].capacity_ = vec[v].capacity_
            /\ vec'[v].data_ = vec[v].data_
            /\ Len(dlog') = l - f
            /\ ret' = <<vec'[v].data_, f>>
            /\ f = l => vec' = vec /\ heap' = heap]_vars

\* an erase has just removed one element from the middle of three, the
\* elements around it of different values
C12_Witness ==
    /\ last.op = "erase"
    /\ last.a = 1
    /\ last.b = 2
    /\ vec[last.v].size_ = 2
    /\ Elems(last.v)[1] # Elems(last.v)[2]
    /\ Len(dlog) = 1
    /\ ret = <<vec[last.v].data_, 1>>

\* C13: insert(p, x) with 0 <= p <= size, when it does not throw, leaves
\* old[0..p), x, old[p..size), adds one to size, returns position p of the
\* storage the vector has after the call, and for p = size leaves the size,
\* capacity and elements that push_back(x) leaves.
C13_InsertAtPosition ==
    [][(last'.op = "insert" /\ last'.res \notin Thrown) =>
         LET v == last'.v
             p == last'.a
             x == last'.b
             n == vec[v].size_
             pb == push_back(Machine, v, x, NoFail).m
         IN /\ fault' = {}
            /\ vec'[v].size_ = n + 1
            /\ ElemsIn(vec', heap', v) =
                  SubSeq(Elems(v), 1, p) \o <<x>> \o SubSeq(Elems(v), p + 1, n)
            /\ ret' = <<vec'[v].data_, p>>
            /\ p = n => ObsIn(vec', heap', v) = ObsIn(pb.vec, pb.heap, v)]_vars

\* the number of slots the call c asks operator new for in the state before
\* it, -1 when it asks for none
AllocRequest(c) ==
    LET o == vec[c.v]
    IN IF c.op = "reserve" /\ c.a > o.capacity_ THEN c.a
       ELSE IF c.op = "shrink_to_fit" /\ o.size_ # 0 /\ o.size_ # o.capacity_
       THEN o.size_
       ELSE IF c.op \in {"push_back", "insert"} /\ o.size_ = o.capacity_
       THEN o.capacity_ * 2 + 1
       ELSE -1

\* C14: when operator new fails in reserve, in shrink_to_fit or in the growth
\* step of push_back or insert, the call throws std::bad_alloc to its caller
\* and size, capacity, block and elements of every vector, and the memory,
\* are as before the call; a call that needs a block and returns normally has
\* obtained a fresh block of the size it asked for.
C14_AllocFailureReported ==
    [][last'.op \in {"reserve", "shrink_to_fit", "push_back", "insert"} =>
         LET v == last'.v
             n == AllocRequest(last')
         IN /\ last'.res = "bad_alloc" =>
                 /\ n >= 0
                 /\ vec' = vec
                 /\ heap' = heap
                 /\ fault' = {}
            /\ (n >= 0 /\ ~CanAlloc(Machine, n)) => last'.res = "bad_alloc"
            /\ (n >= 0 /\ last'.res \notin Thrown) =>
                 /\ fault' = {}
                 /\ vec'[v].data_ # NULL
                 /\ heap[vec'[v].data_].st = "free"
                 /\ heap'[vec'[v].data_].st = "alloc"
                 /\ heap'[vec'[v].data_].cap = n
                 /\ vec'[v].capacity_ = n]_vars

\* an insert into a full vector of three elements has just failed because the
\* memory has no room for the larger block
C14_Witness ==
    /\ last.op = "insert"
    /\ last.res = "bad_alloc"
    /\ vec[last.v].size_ = 3
    /\ vec[last.v].capacity_ = 3
    /\ ~CanAlloc(Machine, 7)
    /\ Elems(last.v)[1] # Elems(last.v)[3]

\* ---- two vectors under push_back, pop_back and copy assignment -----------
InitAssign ==
    /\ vec = [v \in VecIds |-> IF v \in Vecs THEN EmptyVec ELSE NoVec]
    /\ heap = [b \in Blocks |-> FreeBlock]
    /\ dlog = <<>>
    /\ fault = {}
    /\ last = NoCall
    /\ ret = NoIt
    /\ pushed = <<>>
    /\ objs = Vecs
    /\ mem = AssignSlots

NextAssign ==
    \/ \E v \in objs : PushBack(v)
    \/ \E v \in objs : PopBack(v)
    \/ \E v \in objs, w \in objs : CopyAssign(v, w)
    \/ Resume

SpecAssign == InitAssign /\ [][NextAssign]_vars

\* C15: a copy assignment a = b with a and b distinct either returns normally,
\* and then a has the elements b had and b is as it was, or throws (operator
\* new or an element copy failed), and then size, capacity, block and
\* elements of both are as before and no block is gained or lost; a = a
\* returns normally and changes neither the vector nor the memory.
C15_CopyAssign ==
    [][last'.op = "copy_assign" =>
         LET v == last'.v
             w == last'.w
         IN /\ fault' = {}
            /\ v = w => last'.res = "ok" /\ vec' = vec /\ heap' = heap
            /\ (v # w /\ last'.res = "ok") =>
                 /\ ElemsIn(vec', heap', v) = Elems(w)
                 /\ vec'[v].size_ = vec[w].size_
                 /\ vec'[w] = vec[w]
                 /\ ObsIn(vec', heap', w) = Obs(w)
                 /\ vec'[v].data_ # NULL => vec'[v].data_ # vec'[w].data_
            /\ last'.res \in Thrown => vec' = vec /\ heap' = heap]_vars

\* a copy assignment has just replaced two elements by a copy of the one
\* element of the other vector
C15_Witness ==
    /\ last.op = "copy_assign"
    /\ last.res = "ok"
    /\ last.v # last.w
    /\ Len(dlog) = 2
    /\ vec[last.v].size_ = 1
    /\ Elems(last.v) = Elems(last.w)
    /\ vec[last.v].data_ # vec[last.w].data_

\* C16: in every reachable state every vector has 0 <= size <= capacity, also
\* after a call that failed and for the source of a move.
C16_SizeWithinCapacity ==
    \A v \in Vecs : vec[v].live =>
        /\ 0 <= vec[v].size_
        /\ vec[v].size_ <= vec[v].capacity_

\* a push_back that had to grow a full vector has just failed, beside the
\* source of a move
C16_Witness ==
    /\ last.op = "push_back"
    /\ last.res \in Thrown
    /\ vec[last.v].size_ = vec[last.v].capacity_
    /\ vec[last.v].size_ >= 1
    /\ \E u \in Vecs \ {last.v} :
          /\ vec[u].live
          /\ vec[u].data_ = NULL
          /\ vec[u].capacity_ > 0

\* C17: after a shrink_to_fit that returns normally capacity equals size and
\* size and elements are as before; when size equals capacity before the call
\* on a vector that is not empty, nothing is allocated and the block, like
\* everything else, is unchanged.
C17_ShrinkToFit ==
    [][(last'.op = "shrink_to_fit" /\ last'.res = "ok") =>
         LET v == last'.v
         IN /\ vec'[v].capacity_ = vec'[v].size_
            /\ vec'[v].size_ = vec[v].size_
            /\ ElemsIn(vec', heap', v) = Elems(v)
            /\ (vec[v].size_ = vec[v].capacity_ /\ vec[v].size_ > 0) =>
                  vec' = vec /\ heap' = heap]_vars

\* a shrink_to_fit has just moved two elements of different values from a
\* larger block to one of two slots
C17_Witness ==
    /\ last.op = "shrink_to_fit"
    /\ last.res = "ok"
    /\ vec[last.v].size_ = 2
    /\ vec[last.v].capacity_ = 2
    /\ Len(dlog) = 2
    /\ Elems(last.v)[1] # Elems(last.v)[2]

\* the vector v owns the block b in the state of objects vc
OwnsIn(vc, v, b) == vc[v].live /\ vc[v].data_ = b

\* no block is the storage of two vectors
ExclusiveOwnership ==
    \A u \in Vecs : \A w \in Vecs \ {u} : \A b \in Blocks :
        ~(OwnsIn(vec, u, b) /\ OwnsIn(vec, w, b))

\* C18: in every reachable state no block is the storage of two vectors, no
\* block has been given back to operator delete twice and no element has been
\* destroyed twice; a block passes from one vector to another only in a move
\* construction, a move assignment or a swap; and the block a copy
\* (constructor or assignment) gives the destination was free before the call.
C18_ExclusiveOwnership ==
    /\ [](ExclusiveOwnership /\ fault \cap {"double_free", "bad_destroy"} = {})
    /\ [][/\ (\E b \in Blocks : \E u \in Vecs : \E w \in Vecs \ {u} :
                 OwnsIn(vec, u, b) /\ OwnsIn(vec', w, b))
             => last'.op \in {"move_ctor", "move_assign", "swap"}
          /\ (/\ last'.op \in {"copy_ctor", "copy_assign"}
              /\ last'.res = "ok"
              /\ last'.v # last'.w
              /\ vec'[last'.v].data_ # NULL)
             => /\ heap[vec'[last'.v].data_].st = "free"
                /\ heap'[vec'[last'.v].data_].st = "alloc"]_vars

\* a swap has just exchanged the blocks of two vectors that both hold elements
C18_Witness ==
    /\ last.op = "swap"
    /\ last.v # last.w
    /\ vec[last.v].data_ # NULL
    /\ vec[last.w].data_ # NULL
    /\ vec[last.v].data_ # vec[last.w].data_
    /\ vec[last.v].size_ > 0
    /\ vec[last.w].size_ > 0

\* the constructed elements and the allocated blocks of the heap hp
LiveElements(hp) ==
    {<<b, i>> \in Blocks \X (0 .. MaxSlots + PushSlots + AssignSlots) :
        hp[b].st = "alloc" /\ i < hp[b].cap /\ hp[b].slots[i + 1] # Raw}
AllocatedBlocks(hp) == {b \in Blocks : hp[b].st = "alloc"}

\* the call c copies elements into a new block in the state before it
CopiesToNewBlock(c) ==
    \/ c.op \in {"reserve", "shrink_to_fit", "copy_ctor", "copy_assign"}
    \/ c.op \in {"push_back", "insert"} /\ vec[c.v].size_ = vec[c.v].capacity_

\* C19: when the copy of element i throws while elements are copied into a
\* new block (in reallocate or in the copy constructor), or the construction
\* of the new element throws in a push_back that has relocated the size old
\* elements, then exactly the i (resp. size) elements built in the new block
\* are destroyed, last built first, the new block is given back once, the
\* call throws, and the constructed elements and allocated blocks are those
\* from before the call.
C19_RollbackOnCopyFailure ==
    [][(last'.res = "copy_throw" /\ CopiesToNewBlock(last')) =>
         /\ fault' = {}
         /\ Len(dlog') = last'.k
         /\ \A j \in DOMAIN dlog' :
               /\ dlog'[j][2] = last'.k - j
               /\ dlog'[j][1] = dlog'[1][1]
               /\ heap[dlog'[j][1]].st = "free"
               /\ heap'[dlog'[j][1]].st = "free"
         /\ Cardinality(LiveElements(heap')) = Cardinality(LiveElements(heap))
         /\ Cardinality(AllocatedBlocks(heap')) = Cardinality(AllocatedBlocks(heap))
         /\ heap' = heap
         /\ vec' = vec]_vars

\* a reserve on a vector of two elements has just failed on the copy of the
\* second element, after one element was built in the new block
C19_Witness ==
    /\ last.op = "reserve"
    /\ last.res = "copy_throw"
    /\ last.k = 1
    /\ Len(dlog) = 1
    /\ vec[last.v].size_ = 2

\* C20: for every reachable vector, the source of a move construction and a
\* copy of an empty vector included, push_back(x) constructs x in slot size
\* of a block the vector owns, never through the null pointer or past the end
\* of the block, and when it returns normally size has grown by one, x is the
\* last element and the elements before it are as they were.
C20_PushBackConstructsInOwnedSlot ==
    [][last'.op = "push_back" =>
         LET v == last'.v
             n == vec[v].size_
         IN /\ fault' = {}
            /\ last'.res = "ok" =>
                 /\ vec'[v].size_ = n + 1
                 /\ ValidSlot(MachineAfter, vec'[v].data_, n)
                 /\ ElemsIn(vec', heap', v) = Append(Elems(v), last'.a)]_vars
====
